---- MODULE Spec2Model ----
(***************************************************************************)
(* Model of main.py (MicroPython, Raspberry Pi Pico W): a UART reader that *)
(* frames NMEA-0183 lines, parses RMC/GGA/VTG/HDT sentences into the       *)
(* global dict `state`, and an HTTP task that serves `state` as JSON.      *)
(*                                                                         *)
(* Representation.                                                         *)
(*  - A byte/character is a string: a one-character string for a printable *)
(*    ASCII byte, "CR"/"LF" for 0x0D/0x0A, "xE9" for the byte 0xE9 (and    *)
(*    likewise "xC3", "xA9").  In a str, "NonAscii" is a character above   *)
(*    U+007F.                                                              *)
(*    A bytes/str object is a sequence of those.                           *)
(*  - Python None is <<>> and a value v is <<v>>.                          *)
(*  - A float is an integer count of 1/Scale units (Scale = 60000), which  *)
(*    is exact for tokens with up to three decimals and for minutes/60.    *)
(***************************************************************************)
EXTENDS Integers, Sequences, FiniteSets, TLC

VARIABLES
    state,      \* the global dict `state` (main.py:24-31)
    now,        \* the value time.time() returns
    buf,        \* uart_reader's local carry-over buffer
    wire,       \* bytes of the link not yet read by uart.read
    pcU,        \* position of the uart_reader task
    writes,     \* store assignments of the current sentence still to execute
    running,    \* the task the cooperative scheduler is running
    conns,      \* connections waiting in the listen backlog (with their request)
    nreq,       \* number of requests that have arrived
    answered,   \* ids of the requests the server has handled
    reply,      \* what the server sent for the last request it handled
    pre,        \* history: `state` when the current/last line entered the parser
    lastLine,   \* history: the last text line handed to parse_nmea_line
    base,       \* history: `state` when the current framing epoch began
    sent,       \* history: all bytes read in the current framing epoch
    call        \* history: the last call of nmea_to_decimal made on its own

vars == <<state, now, buf, wire, pcU, writes, running, conns, nreq, answered,
          reply, pre, lastLine, base, sent, call>>

----------------------------------------------------------------------------
(* Python values *)

None == <<>>
Some(v) == <<v>>
IsNone(x) == x = <<>>
Val(x) == x[1]

Scale == 60000

Min(a, b) == IF a < b THEN a ELSE b
Max(a, b) == IF a > b THEN a ELSE b

----------------------------------------------------------------------------
(* str / bytes primitives, as Python computes them *)

Digits == <<"0", "1", "2", "3", "4", "5", "6", "7", "8", "9">>
IsDigit(c) == \E i \in 1..10 : Digits[i] = c
DigitVal(c) == (CHOOSE i \in 1..10 : Digits[i] = c) - 1

\* str.strip() with no argument removes these from both ends
Whitespace == {" ", "CR", "LF", "TAB"}

RECURSIVE LStrip(_)
LStrip(s) ==
    IF s # <<>> /\ Head(s) \in Whitespace THEN LStrip(Tail(s)) ELSE s

RECURSIVE RStrip(_)
RStrip(s) ==
    IF s # <<>> /\ s[Len(s)] \in Whitespace
    THEN RStrip(SubSeq(s, 1, Len(s) - 1)) ELSE s

Strip(s) == RStrip(LStrip(s))

\* s.find(c): 0-based index of the first c, -1 when there is none
Find(s, c) ==
    IF \E i \in 1..Len(s) : s[i] = c
    THEN (CHOOSE i \in 1..Len(s) : s[i] = c /\ \A j \in 1..(i - 1) : s[j] # c) - 1
    ELSE -1

\* a slice bound k as Python normalises it: negative counts from the end
SliceIndex(s, k) == IF k < 0 THEN Max(Len(s) + k, 0) ELSE Min(k, Len(s))

\* s[:k] and s[k:]
SliceTo(s, k) == SubSeq(s, 1, SliceIndex(s, k))
SliceFrom(s, k) == SubSeq(s, SliceIndex(s, k) + 1, Len(s))

\* s.split(sep): the fields between separators, empty fields included
RECURSIVE Split(_, _)
Split(s, sep) ==
    LET i == Find(s, sep)
    IN  IF i = -1 THEN <<s>>
        ELSE <<SubSeq(s, 1, i)>> \o Split(SubSeq(s, i + 2, Len(s)), sep)

\* variant: s.rsplit(sep, 1), split at the last separator only
Split1_Last(s, sep) ==
    LET n == Len(s)
        j == IF \E i \in 1..n : s[i] = sep
             THEN CHOOSE i \in 1..n : s[i] = sep /\ \A k \in (i + 1)..n : s[k] # sep
             ELSE 0
    IN  IF j = 0 THEN <<s>>
        ELSE <<SubSeq(s, 1, j - 1), SubSeq(s, j + 1, n)>>

\* variant: the separator is left at the head of the second part
Split1_Keep(s, sep) ==
    LET i == Find(s, sep)
    IN  IF i = -1 THEN <<s>>
        ELSE <<SubSeq(s, 1, i), SubSeq(s, i + 1, Len(s))>>

\* s.split(sep, 1): split at the first separator only
Split1(s, sep) ==
    LET i == Find(s, sep)
    IN  IF i = -1 THEN <<s>>
        ELSE <<SubSeq(s, 1, i), SubSeq(s, i + 2, Len(s))>>

StartsWith(s, c) == s # <<>> /\ s[1] = c

RECURSIVE DigitsValue(_)
DigitsValue(s) ==
    IF s = <<>> THEN 0
    ELSE 10 * DigitsValue(SubSeq(s, 1, Len(s) - 1)) + DigitVal(s[Len(s)])

AllDigits(s) == \A i \in 1..Len(s) : IsDigit(s[i])

\* the three leading decimals of a fraction, in thousandths
Thousandths(f) ==
    LET p == f \o <<"0", "0", "0">> IN DigitsValue(SubSeq(p, 1, 3))

\* float(tok): [ok |-> FALSE] stands for ValueError.  Accepts an optional
\* sign, digits and at most one decimal point with a digit on either side.
float(tok) ==
    LET t    == Strip(tok)
        sgn  == IF t # <<>> /\ t[1] = "-" THEN -1 ELSE 1
        body == IF t # <<>> /\ t[1] \in {"-", "+"} THEN Tail(t) ELSE t
        dot  == Find(body, ".")
        ip   == IF dot = -1 THEN body ELSE SubSeq(body, 1, dot)
        fp   == IF dot = -1 THEN <<>> ELSE SubSeq(body, dot + 2, Len(body))
    IN  IF AllDigits(ip) /\ AllDigits(fp) /\ Len(ip) + Len(fp) > 0
        THEN [ok |-> TRUE,
              v  |-> sgn * (DigitsValue(ip) * Scale + Thousandths(fp) * (Scale \div 1000))]
        ELSE [ok |-> FALSE, v |-> 0]

\* truth value of an optional float: None and 0.0 are both false
Truthy(x) == ~IsNone(x) /\ Val(x) # 0

----------------------------------------------------------------------------
(* bytes: code points, hex formatting, decoding *)

\* the printable ASCII bytes 0x20..0x5F and 0x61..0x7E, in code order
PrintableLow ==
    <<" ", "!", "\"", "#", "$", "%", "&", "'", "(", ")", "*", "+", ",",
      "-", ".", "/", "0", "1", "2", "3", "4", "5", "6", "7", "8", "9", ":",
      ";", "<", "=", ">", "?", "@", "A", "B", "C", "D", "E", "F", "G", "H",
      "I", "J", "K", "L", "M", "N", "O", "P", "Q", "R", "S", "T", "U", "V",
      "W", "X", "Y", "Z", "[", "\\", "]", "^", "_">>

PrintableHigh ==
    <<"a", "b", "c", "d", "e", "f", "g", "h", "i", "j", "k", "l", "m", "n",
      "o", "p", "q", "r", "s", "t", "u", "v", "w", "x", "y", "z", "{", "|",
      "}", "~">>

\* the integer value of a byte
Ord(b) ==
    CASE b = "TAB" -> 9
      [] b = "LF"  -> 10
      [] b = "CR"  -> 13
      [] b = "xE9" -> 233
      [] b = "xC3" -> 195
      [] b = "xA9" -> 169
      [] \E i \in 1..Len(PrintableLow) : PrintableLow[i] = b ->
            31 + CHOOSE i \in 1..Len(PrintableLow) : PrintableLow[i] = b
      [] OTHER ->
            96 + CHOOSE i \in 1..Len(PrintableHigh) : PrintableHigh[i] = b

HexDigits ==
    <<"0", "1", "2", "3", "4", "5", "6", "7", "8", "9", "A", "B", "C", "D", "E", "F">>

\* ''.join('{:02X} '.format(x) for x in b)   (main.py:120)
RECURSIVE HexDump(_)
HexDump(b) ==
    IF b = <<>> THEN <<>>
    ELSE <<HexDigits[(Ord(Head(b)) \div 16) + 1],
           HexDigits[(Ord(Head(b)) % 16) + 1], " ">> \o HexDump(Tail(b))

IsAscii(b) == Ord(b) < 128

\* line.decode('ascii', 'ignore') as written: bytes outside ASCII are left out
Decode(line) == SelectSeq(line, IsAscii)

\* MicroPython's bytes.decode does not look at its two arguments: it checks
\* that the bytes are well-formed UTF-8, raises UnicodeError when they are
\* not, and otherwise returns them as text.
\* The number of continuation bytes a lead byte announces:
Utf8Need(c) == IF c < 224 THEN 1 ELSE IF c < 240 THEN 2 ELSE 3

RECURSIVE Utf8Check(_, _)
Utf8Check(bytes, need) ==
    IF bytes = <<>> THEN need = 0
    ELSE LET c == Ord(Head(bytes))
         IN  IF need > 0
             THEN c \in 128..191 /\ Utf8Check(Tail(bytes), need - 1)
             ELSE IF c >= 192
             THEN c < 248 /\ Utf8Check(Tail(bytes), Utf8Need(c))
             ELSE c < 128 /\ Utf8Check(Tail(bytes), 0)

IsContinuation(b) == Ord(b) \in 128..191

\* the text of well-formed UTF-8: one character per sequence
Utf8Text(bytes) ==
    LET heads == SelectSeq(bytes, LAMBDA b : ~IsContinuation(b))
    IN  [i \in 1..Len(heads) |-> IF IsAscii(heads[i]) THEN heads[i] ELSE "NonAscii"]

DecodeChecked(line) ==
    IF Utf8Check(line, 0) THEN [ok |-> TRUE, text |-> Utf8Text(line)]
    ELSE [ok |-> FALSE, text |-> <<>>]

\* what line 127 can give, by the build that runs it; ok = FALSE is the
\* except branch of line 130
DecodeOutcomes(line) == {[ok |-> TRUE, text |-> Decode(line)], DecodeChecked(line)}

----------------------------------------------------------------------------
(* nmea_to_decimal (main.py:52-66) *)

\* variant: the degrees are the first two characters, whatever the token
nmea_to_decimal_FixedColumn(coord, hem) ==
    IF coord = <<>> THEN None
    ELSE LET deglen  == 2
             degrees == float(SliceTo(coord, deglen))
             minutes == float(SliceFrom(coord, deglen))
             dec     == degrees.v + minutes.v \div 60
         IN  IF ~degrees.ok \/ ~minutes.ok THEN None
             ELSE IF hem \in {<<"S">>, <<"W">>} THEN Some(-dec)
             ELSE Some(dec)

nmea_to_decimal(coord, hem) ==
    IF coord = <<>> THEN None
    ELSE LET dot     == Find(coord, ".")
             deglen  == dot - 2
             degrees == float(SliceTo(coord, deglen))
             minutes == float(SliceFrom(coord, deglen))
             dec     == degrees.v + minutes.v \div 60
         IN  IF ~degrees.ok \/ ~minutes.ok THEN None
             ELSE IF hem \in {<<"S">>, <<"W">>} THEN Some(-dec)
             ELSE Some(dec)

----------------------------------------------------------------------------
(* parse_nmea_line (main.py:68-109) *)

Wr(key, val) == [key |-> key, val |-> val]

\* the outcome of one call: `failed` is the except branch of line 108, and
\* `writes` are the assignments to `state` that were executed, in order.
\* The value of a last_update assignment is read from the clock when the
\* assignment runs (see StoreWrite).
Parsed(ws) == [failed |-> FALSE, writes |-> ws]
Raised == [failed |-> TRUE, writes |-> <<>>]

\* parts[k], with Python's 0-based index
Item(parts, k) == parts[k + 1]

\* variant: an empty speed field keeps the stored speed, as for the heading
RmcFix_KeepSpeed(parts, st) ==
    IF Len(parts) < 9 THEN Raised
    ELSE LET lat == nmea_to_decimal(Item(parts, 3), Item(parts, 4))
             lon == nmea_to_decimal(Item(parts, 5), Item(parts, 6))
             spd == float(Item(parts, 7))
             hdg == float(Item(parts, 8))
         IN  IF (Item(parts, 7) # <<>> /\ ~spd.ok) \/ (Item(parts, 8) # <<>> /\ ~hdg.ok)
             THEN Raised
             ELSE Parsed(
                    (IF Truthy(lat) THEN <<Wr("lat", lat)>> ELSE <<>>)
                 \o (IF Truthy(lon) THEN <<Wr("lon", lon)>> ELSE <<>>)
                 \o <<Wr("speed_kn", IF Item(parts, 7) # <<>> THEN Some(spd.v) ELSE st.speed_kn)>>
                 \o <<Wr("heading", IF Item(parts, 8) # <<>> THEN Some(hdg.v) ELSE st.heading)>>
                 \o <<Wr("last_update", None)>>)

\* lines 79-88: an RMC sentence whose status is A
RmcFix(parts, st) ==
    IF Len(parts) < 9 THEN Raised
    ELSE LET lat == nmea_to_decimal(Item(parts, 3), Item(parts, 4))
             lon == nmea_to_decimal(Item(parts, 5), Item(parts, 6))
             spd == float(Item(parts, 7))
             hdg == float(Item(parts, 8))
         IN  IF (Item(parts, 7) # <<>> /\ ~spd.ok) \/ (Item(parts, 8) # <<>> /\ ~hdg.ok)
             THEN Raised
             ELSE Parsed(
                    (IF Truthy(lat) THEN <<Wr("lat", lat)>> ELSE <<>>)
                 \o (IF Truthy(lon) THEN <<Wr("lon", lon)>> ELSE <<>>)
                 \o <<Wr("speed_kn", IF Item(parts, 7) # <<>> THEN Some(spd.v) ELSE None)>>
                 \o <<Wr("heading", IF Item(parts, 8) # <<>> THEN Some(hdg.v) ELSE st.heading)>>
                 \o <<Wr("last_update", None)>>)

\* variant: the status field is not looked at
ParseRMC_AnyStatus(parts, st) ==
    IF Len(parts) < 3 THEN Raised ELSE RmcFix(parts, st)

\* line 78: an RMC sentence is processed only when its status is A
ParseRMC(parts, st) ==
    IF Len(parts) < 3 THEN Raised
    ELSE IF Item(parts, 2) # <<"A">> THEN Parsed(<<>>)
    ELSE RmcFix(parts, st)

\* variant: lat and lon are assigned whatever the decoder returned
ParseGGA_Overwrite(parts, st) ==
    IF Len(parts) < 6 THEN Raised
    ELSE LET lat == nmea_to_decimal(Item(parts, 2), Item(parts, 3))
             lon == nmea_to_decimal(Item(parts, 4), Item(parts, 5))
         IN  Parsed(<<Wr("lat", lat), Wr("lon", lon), Wr("last_update", None)>>)

\* lines 89-95: a GGA sentence
ParseGGA(parts, st) ==
    IF Len(parts) < 6 THEN Raised
    ELSE LET lat == nmea_to_decimal(Item(parts, 2), Item(parts, 3))
             lon == nmea_to_decimal(Item(parts, 4), Item(parts, 5))
         IN  Parsed(
                (IF Truthy(lat) THEN <<Wr("lat", lat)>> ELSE <<>>)
             \o (IF Truthy(lon) THEN <<Wr("lon", lon)>> ELSE <<>>)
             \o <<Wr("last_update", None)>>)

\* variant: a missing or empty knots field clears the stored speed
ParseVTG_Clear(parts, st) ==
    IF Len(parts) > 5 /\ Item(parts, 5) # <<>>
    THEN LET spd == float(Item(parts, 5))
         IN  IF ~spd.ok THEN Raised
             ELSE Parsed(<<Wr("speed_kn", Some(spd.v)), Wr("last_update", None)>>)
    ELSE Parsed(<<Wr("speed_kn", None)>>)

\* lines 96-101: a VTG sentence
ParseVTG(parts, st) ==
    IF Len(parts) > 5 /\ Item(parts, 5) # <<>>
    THEN LET spd == float(Item(parts, 5))
         IN  IF ~spd.ok THEN Raised
             ELSE Parsed(<<Wr("speed_kn", Some(spd.v)), Wr("last_update", None)>>)
    ELSE Parsed(<<>>)

\* variant: the stored heading is cleared before the field is converted
ParseHDT_ClearFirst(parts, st) ==
    IF Len(parts) < 2 THEN Raised
    ELSE IF Item(parts, 1) = <<>> THEN Parsed(<<>>)
    ELSE LET hdg == float(Item(parts, 1))
         IN  IF ~hdg.ok THEN [failed |-> TRUE, writes |-> <<Wr("heading", None)>>]
             ELSE Parsed(<<Wr("heading", Some(hdg.v)), Wr("last_update", None)>>)

\* lines 102-107: an HDT sentence
ParseHDT(parts, st) ==
    IF Len(parts) < 2 THEN Raised
    ELSE IF Item(parts, 1) = <<>> THEN Parsed(<<>>)
    ELSE LET hdg == float(Item(parts, 1))
         IN  IF ~hdg.ok THEN Raised
             ELSE Parsed(<<Wr("heading", Some(hdg.v)), Wr("last_update", None)>>)

RMC == <<"R", "M", "C">>
GGA == <<"G", "G", "A">>
VTG == <<"V", "T", "G">>
HDT == <<"H", "D", "T">>
GP == <<"G", "P">>

\* parts[0][3:], the sentence-type code
TypeOf(parts) == SliceFrom(parts[1], 3)

parse_nmea_line(text, st) ==
    LET line  == Strip(text)
        parts == Split(line, ",")
        typ   == TypeOf(parts)
    IN  IF ~StartsWith(line, "$") THEN Parsed(<<>>)
        ELSE IF typ = RMC \/ typ = GP \o RMC THEN ParseRMC(parts, st)
        ELSE IF typ = GGA \/ typ = GP \o GGA THEN ParseGGA(parts, st)
        ELSE IF typ = VTG \/ typ = GP \o VTG THEN ParseVTG(parts, st)
        ELSE IF typ = HDT \/ typ = GP \o HDT THEN ParseHDT(parts, st)
        ELSE Parsed(<<>>)

\* one assignment state[key] = val; time.time() is read when it executes
StoreWrite(st, w, t) ==
    [st EXCEPT ![w.key] = IF w.key = "last_update" THEN Some(t) ELSE w.val]

RECURSIVE StoreWrites(_, _, _)
StoreWrites(st, ws, t) ==
    IF ws = <<>> THEN st ELSE StoreWrites(StoreWrite(st, Head(ws), t), Tail(ws), t)

----------------------------------------------------------------------------
(* Inputs: the text lines handed to the parser *)

\* $GPRMC,123519,A,4807.038,N,01131.000,E,022.4,084.4,230394,003.1,W*6A
RmcFull ==
    <<"$", "G", "P", "R", "M", "C", ",", "1", "2", "3", "5", "1", "9", ",",
      "A", ",", "4", "8", "0", "7", ".", "0", "3", "8", ",", "N", ",", "0",
      "1", "1", "3", "1", ".", "0", "0", "0", ",", "E", ",", "0", "2", "2",
      ".", "4", ",", "0", "8", "4", ".", "4", ",", "2", "3", "0", "3", "9",
      "4", ",", "0", "0", "3", ".", "1", ",", "W", "*", "6", "A">>

\* $GNRMC,081836,A,3751.650,S,14507.360,W,000.0,360.0,130998,011.3,E*62
RmcSouthWest ==
    <<"$", "G", "N", "R", "M", "C", ",", "0", "8", "1", "8", "3", "6", ",",
      "A", ",", "3", "7", "5", "1", ".", "6", "5", "0", ",", "S", ",", "1",
      "4", "5", "0", "7", ".", "3", "6", "0", ",", "W", ",", "0", "0", "0",
      ".", "0", ",", "3", "6", "0", ".", "0", ",", "1", "3", "0", "9", "9",
      "8", ",", "0", "1", "1", ".", "3", ",", "E", "*", "6", "2">>

\* $GPRMC,123519,A,4807.038,N,01131.000,E,,084.4,230394,003.1,W*6A
RmcNoSpeed ==
    <<"$", "G", "P", "R", "M", "C", ",", "1", "2", "3", "5", "1", "9", ",",
      "A", ",", "4", "8", "0", "7", ".", "0", "3", "8", ",", "N", ",", "0",
      "1", "1", "3", "1", ".", "0", "0", "0", ",", "E", ",", ",", "0", "8",
      "4", ".", "4", ",", "2", "3", "0", "3", "9", "4", ",", "0", "0", "3",
      ".", "1", ",", "W", "*", "6", "A">>

\* $GPRMC,123519,A,4807.038,N,01131.000,E,022.4,,230394,003.1,W*6A
RmcNoHeading ==
    <<"$", "G", "P", "R", "M", "C", ",", "1", "2", "3", "5", "1", "9", ",",
      "A", ",", "4", "8", "0", "7", ".", "0", "3", "8", ",", "N", ",", "0",
      "1", "1", "3", "1", ".", "0", "0", "0", ",", "E", ",", "0", "2", "2",
      ".", "4", ",", ",", "2", "3", "0", "3", "9", "4", ",", "0", "0", "3",
      ".", "1", ",", "W", "*", "6", "A">>

\* $GPRMC,123519,A,0000.000,N,01131.000,E,022.4,084.4,230394,003.1,W*6A
RmcEquator ==
    <<"$", "G", "P", "R", "M", "C", ",", "1", "2", "3", "5", "1", "9", ",",
      "A", ",", "0", "0", "0", "0", ".", "0", "0", "0", ",", "N", ",", "0",
      "1", "1", "3", "1", ".", "0", "0", "0", ",", "E", ",", "0", "2", "2",
      ".", "4", ",", "0", "8", "4", ".", "4", ",", "2", "3", "0", "3", "9",
      "4", ",", "0", "0", "3", ".", "1", ",", "W", "*", "6", "A">>

\* $GPRMC,123519,A,4807.038,N,00000.000,E,005.5,123.4,230394,003.1,W*6A
RmcMeridian ==
    <<"$", "G", "P", "R", "M", "C", ",", "1", "2", "3", "5", "1", "9", ",",
      "A", ",", "4", "8", "0", "7", ".", "0", "3", "8", ",", "N", ",", "0",
      "0", "0", "0", "0", ".", "0", "0", "0", ",", "E", ",", "0", "0", "5",
      ".", "5", ",", "1", "2", "3", ".", "4", ",", "2", "3", "0", "3", "9",
      "4", ",", "0", "0", "3", ".", "1", ",", "W", "*", "6", "A">>

\* $GPRMC,123519,A,,,,,,,230394,,
RmcAllEmpty ==
    <<"$", "G", "P", "R", "M", "C", ",", "1", "2", "3", "5", "1", "9", ",",
      "A", ",", ",", ",", ",", ",", ",", ",", "2", "3", "0", "3", "9", "4",
      ",", ",">>

\* $GPRMC,123519,A,48x7.038,N,01131.000,E,005.5,123.4,230394,003.1,W*6A
RmcBadLat ==
    <<"$", "G", "P", "R", "M", "C", ",", "1", "2", "3", "5", "1", "9", ",",
      "A", ",", "4", "8", "x", "7", ".", "0", "3", "8", ",", "N", ",", "0",
      "1", "1", "3", "1", ".", "0", "0", "0", ",", "E", ",", "0", "0", "5",
      ".", "5", ",", "1", "2", "3", ".", "4", ",", "2", "3", "0", "3", "9",
      "4", ",", "0", "0", "3", ".", "1", ",", "W", "*", "6", "A">>

\* $GPRMC,123519,V,3751.650,S,14507.360,W,005.5,123.4,230394,003.1,W*6A
RmcVoid ==
    <<"$", "G", "P", "R", "M", "C", ",", "1", "2", "3", "5", "1", "9", ",",
      "V", ",", "3", "7", "5", "1", ".", "6", "5", "0", ",", "S", ",", "1",
      "4", "5", "0", "7", ".", "3", "6", "0", ",", "W", ",", "0", "0", "5",
      ".", "5", ",", "1", "2", "3", ".", "4", ",", "2", "3", "0", "3", "9",
      "4", ",", "0", "0", "3", ".", "1", ",", "W", "*", "6", "A">>

\* $GPRMC,123519,V
RmcVoidShort ==
    <<"$", "G", "P", "R", "M", "C", ",", "1", "2", "3", "5", "1", "9", ",",
      "V">>

\* $GPRMC,123519,a,3751.650,S,14507.360,W,005.5,123.4,230394,003.1,W*6A
RmcLowerA ==
    <<"$", "G", "P", "R", "M", "C", ",", "1", "2", "3", "5", "1", "9", ",",
      "a", ",", "3", "7", "5", "1", ".", "6", "5", "0", ",", "S", ",", "1",
      "4", "5", "0", "7", ".", "3", "6", "0", ",", "W", ",", "0", "0", "5",
      ".", "5", ",", "1", "2", "3", ".", "4", ",", "2", "3", "0", "3", "9",
      "4", ",", "0", "0", "3", ".", "1", ",", "W", "*", "6", "A">>

\* $GPRMC,123519
RmcNoStatus ==
    <<"$", "G", "P", "R", "M", "C", ",", "1", "2", "3", "5", "1", "9">>

\* $GPRMC,123519,A,3751.650,S,14507.360,W,005.5
RmcShort ==
    <<"$", "G", "P", "R", "M", "C", ",", "1", "2", "3", "5", "1", "9", ",",
      "A", ",", "3", "7", "5", "1", ".", "6", "5", "0", ",", "S", ",", "1",
      "4", "5", "0", "7", ".", "3", "6", "0", ",", "W", ",", "0", "0", "5",
      ".", "5">>

\* $GPRMC,123519,A,3751.650,S,14507.360,W,fast,123.4,230394,003.1,W*6A
RmcBadSpeed ==
    <<"$", "G", "P", "R", "M", "C", ",", "1", "2", "3", "5", "1", "9", ",",
      "A", ",", "3", "7", "5", "1", ".", "6", "5", "0", ",", "S", ",", "1",
      "4", "5", "0", "7", ".", "3", "6", "0", ",", "W", ",", "f", "a", "s",
      "t", ",", "1", "2", "3", ".", "4", ",", "2", "3", "0", "3", "9", "4",
      ",", "0", "0", "3", ".", "1", ",", "W", "*", "6", "A">>

\* $GPRMC,123519,A,3751.650,S,14507.360,W,,12x.4,230394,003.1,W*6A
RmcBadHeading ==
    <<"$", "G", "P", "R", "M", "C", ",", "1", "2", "3", "5", "1", "9", ",",
      "A", ",", "3", "7", "5", "1", ".", "6", "5", "0", ",", "S", ",", "1",
      "4", "5", "0", "7", ".", "3", "6", "0", ",", "W", ",", ",", "1", "2",
      "x", ".", "4", ",", "2", "3", "0", "3", "9", "4", ",", "0", "0", "3",
      ".", "1", ",", "W", "*", "6", "A">>

\* $GPGGA,123519,4807.038,N,01131.000,E,1,08,0.9,545.4,M,46.9,M,,*47
GgaFull ==
    <<"$", "G", "P", "G", "G", "A", ",", "1", "2", "3", "5", "1", "9", ",",
      "4", "8", "0", "7", ".", "0", "3", "8", ",", "N", ",", "0", "1", "1",
      "3", "1", ".", "0", "0", "0", ",", "E", ",", "1", ",", "0", "8", ",",
      "0", ".", "9", ",", "5", "4", "5", ".", "4", ",", "M", ",", "4", "6",
      ".", "9", ",", "M", ",", ",", "*", "4", "7">>

\* $GPGGA,081836,3751.650,S,14507.360,W,1,05,1.5,280.2,M,-34.0,M,,*75
GgaSouthWest ==
    <<"$", "G", "P", "G", "G", "A", ",", "0", "8", "1", "8", "3", "6", ",",
      "3", "7", "5", "1", ".", "6", "5", "0", ",", "S", ",", "1", "4", "5",
      "0", "7", ".", "3", "6", "0", ",", "W", ",", "1", ",", "0", "5", ",",
      "1", ".", "5", ",", "2", "8", "0", ".", "2", ",", "M", ",", "-", "3",
      "4", ".", "0", ",", "M", ",", ",", "*", "7", "5">>

\* $GPGGA,123519,,,,,0,00,,,M,,M,,*66
GgaEmpty ==
    <<"$", "G", "P", "G", "G", "A", ",", "1", "2", "3", "5", "1", "9", ",",
      ",", ",", ",", ",", "0", ",", "0", "0", ",", ",", ",", "M", ",", ",",
      "M", ",", ",", "*", "6", "6">>

\* $GPGGA,123519,3751.650,S,,,1,08,0.9,545.4,M,46.9,M,,*47
GgaLatOnly ==
    <<"$", "G", "P", "G", "G", "A", ",", "1", "2", "3", "5", "1", "9", ",",
      "3", "7", "5", "1", ".", "6", "5", "0", ",", "S", ",", ",", ",", "1",
      ",", "0", "8", ",", "0", ".", "9", ",", "5", "4", "5", ".", "4", ",",
      "M", ",", "4", "6", ".", "9", ",", "M", ",", ",", "*", "4", "7">>

\* $GPGGA,123519,4807.038
GgaShort ==
    <<"$", "G", "P", "G", "G", "A", ",", "1", "2", "3", "5", "1", "9", ",",
      "4", "8", "0", "7", ".", "0", "3", "8">>

\* $GPVTG,054.7,T,034.4,M,005.5,N,010.2,K*48
VtgFull ==
    <<"$", "G", "P", "V", "T", "G", ",", "0", "5", "4", ".", "7", ",", "T",
      ",", "0", "3", "4", ".", "4", ",", "M", ",", "0", "0", "5", ".", "5",
      ",", "N", ",", "0", "1", "0", ".", "2", ",", "K", "*", "4", "8">>

\* $GPVTG,,T,,M,0.0,N,0.0,K
VtgZero ==
    <<"$", "G", "P", "V", "T", "G", ",", ",", "T", ",", ",", "M", ",", "0",
      ".", "0", ",", "N", ",", "0", ".", "0", ",", "K">>

\* $GPVTG,054.7,T,034.4,M,,N,010.2,K*48
VtgEmpty ==
    <<"$", "G", "P", "V", "T", "G", ",", "0", "5", "4", ".", "7", ",", "T",
      ",", "0", "3", "4", ".", "4", ",", "M", ",", ",", "N", ",", "0", "1",
      "0", ".", "2", ",", "K", "*", "4", "8">>

\* $GPVTG,054.7,T
VtgShort ==
    <<"$", "G", "P", "V", "T", "G", ",", "0", "5", "4", ".", "7", ",", "T">>

\* $GPVTG,054.7,T,034.4,M,fast,N,010.2,K*48
VtgBad ==
    <<"$", "G", "P", "V", "T", "G", ",", "0", "5", "4", ".", "7", ",", "T",
      ",", "0", "3", "4", ".", "4", ",", "M", ",", "f", "a", "s", "t", ",",
      "N", ",", "0", "1", "0", ".", "2", ",", "K", "*", "4", "8">>

\* $GPHDT,123.4,T
HdtFull ==
    <<"$", "G", "P", "H", "D", "T", ",", "1", "2", "3", ".", "4", ",", "T">>

\* $HEHDT,360.0,T*2C
HdtOther ==
    <<"$", "H", "E", "H", "D", "T", ",", "3", "6", "0", ".", "0", ",", "T",
      "*", "2", "C">>

\* $GPHDT,,T
HdtEmpty ==
    <<"$", "G", "P", "H", "D", "T", ",", ",", "T">>

\* $GPHDT
HdtShort ==
    <<"$", "G", "P", "H", "D", "T">>

\* $GPHDT,12x.4,T
HdtBad ==
    <<"$", "G", "P", "H", "D", "T", ",", "1", "2", "x", ".", "4", ",", "T">>

\* $GPGSV,3,1,11,03,03,111,00
GsvOther ==
    <<"$", "G", "P", "G", "S", "V", ",", "3", ",", "1", ",", "1", "1", ",",
      "0", "3", ",", "0", "3", ",", "1", "1", "1", ",", "0", "0">>

\* GPHDT,123.4,T
NoDollar ==
    <<"G", "P", "H", "D", "T", ",", "1", "2", "3", ".", "4", ",", "T">>


\* every line the sentence-level specification feeds to the parser
Lines ==
    {RmcFull, RmcSouthWest, RmcNoSpeed, RmcNoHeading, RmcEquator,
     RmcMeridian, RmcAllEmpty, RmcBadLat, RmcVoid, RmcVoidShort,
     RmcLowerA, RmcNoStatus, RmcShort, RmcBadSpeed, RmcBadHeading,
     GgaFull, GgaSouthWest, GgaEmpty, GgaLatOnly, GgaShort, VtgFull,
     VtgZero, VtgEmpty, VtgShort, VtgBad, HdtFull, HdtOther, HdtEmpty,
     HdtShort, HdtBad, GsvOther, NoDollar}

\* $IIVTG,,,,,5
VtgOther ==
    <<"$", "I", "I", "V", "T", "G", ",", ",", ",", ",", ",", "5">>

\* $GPGPHDT,9
HdtDouble ==
    <<"$", "G", "P", "G", "P", "H", "D", "T", ",", "9">>

\* $GPHDTX,9
HdtLong ==
    <<"$", "G", "P", "H", "D", "T", "X", ",", "9">>

\* $GPHDT,123.4*2F
HdtSum ==
    <<"$", "G", "P", "H", "D", "T", ",", "1", "2", "3", ".", "4", "*", "2",
      "F">>

\* $GPHDT,123.4
HdtNoSum ==
    <<"$", "G", "P", "H", "D", "T", ",", "1", "2", "3", ".", "4">>

\* $GPHDT,123.4,T*2C
HdtSumT ==
    <<"$", "G", "P", "H", "D", "T", ",", "1", "2", "3", ".", "4", ",", "T",
      "*", "2", "C">>

\* $GPVTG,,,,,5*48
VtgSum ==
    <<"$", "G", "P", "V", "T", "G", ",", ",", ",", ",", ",", "5", "*", "4",
      "8">>

\* the lines of the dispatch specification: other talkers, other codes, and
\* sentences with and without a checksum
DispatchLines ==
    {NoDollar, GsvOther, HdtOther, VtgOther, HdtDouble, HdtLong, HdtSum,
     HdtNoSum, HdtSumT, VtgSum, RmcFull, GgaFull}

----------------------------------------------------------------------------
(* Inputs: what the link delivers *)

\* $GPHDT,9
HdtTiny ==
    <<"$", "G", "P", "H", "D", "T", ",", "9">>

\* $GPHDT,7
HdtSeven ==
    <<"$", "G", "P", "H", "D", "T", ",", "7">>

\* $GPVTG,,,,,3
VtgThree ==
    <<"$", "G", "P", "V", "T", "G", ",", ",", ",", ",", ",", "3">>

\* $GPHDT,x
HdtGarbled ==
    <<"$", "G", "P", "H", "D", "T", ",", "x">>

\* $GPVTG,,,,,5
VtgTiny ==
    <<"$", "G", "P", "V", "T", "G", ",", ",", ",", ",", ",", "5">>

\* $GPGGA,,130.0,,230.0,W
GgaTiny ==
    <<"$", "G", "P", "G", "G", "A", ",", ",", "1", "3", "0", ".", "0", ",",
      ",", "2", "3", "0", ".", "0", ",", "W">>

\* $GPGGA,,130.
GgaHead ==
    <<"$", "G", "P", "G", "G", "A", ",", ",", "1", "3", "0", ".">>

CRLF == <<"CR", "LF">>
LF == <<"LF">>

\* a good sentence, a garbled one and another good one, sent back to back
SegTrio == HdtTiny \o CRLF \o HdtGarbled \o LF \o VtgTiny \o LF
\* a blank line, then a line holding a single byte outside ASCII
SegBlank == CRLF \o <<"xE9">> \o LF
\* a sentence with three store assignments
SegGga == GgaTiny \o CRLF
\* the beginning of a sentence, with no terminator
SegHead == GgaHead

\* $GPHDT,7,<C3 A9>: an accented letter in a field the parser does not read
SegAccent == HdtSeven \o <<",", "xC3", "xA9">> \o LF
\* $GPVTG,,,,,5<E9>: a stray byte after the last field
SegStray == VtgTiny \o <<"xE9">> \o CRLF
\* <E9>$GPHDT,9 and then a sentence of plain text
SegAfter == <<"xE9">> \o HdtTiny \o LF \o VtgThree \o LF

\* the segments of the decoding specification, each read in one piece
DecodeSegments == {SegAccent, SegStray, SegAfter}

\* two headings in one chunk
SegNineSeven == HdtTiny \o LF \o HdtSeven \o CRLF
\* two speeds in one chunk
SegSpeeds == VtgTiny \o LF \o VtgThree \o LF
\* a heading, and a second one whose terminator has not arrived yet
SegSevenOpen == HdtSeven \o LF \o HdtTiny
\* the terminator alone
SegEnd == LF

\* the segments of the ordering specification, each read in one piece
OrderSegments == {SegNineSeven, SegSpeeds, SegSevenOpen, SegEnd}

\* the segments of the framing specification, read in pieces of any size
FrameSegments == {SegTrio, SegBlank}

\* the segments of a stalled link: no terminator ever arrives
StallSegments == {SegHead}

\* the segments of the task-level specification, each read in one piece
Segments == {SegGga, SegHead}

\* what a client may send on a connection
Requests == {"index", "data", "other", "bad", "empty"}

----------------------------------------------------------------------------
(* Bounds *)

\* time.time() stops advancing at MaxTime
MaxTime == 1

\* the model stops reading when the carry-over buffer would pass MaxBuf
MaxBuf == 37

\* number of client requests in a run
MaxReq == 2

\* number of connections that wait in the backlog at a time
MaxPending == 1

\* a size the carry-over buffer is claimed not to pass (two unterminated
\* segments of the stalled link)
CarryBound == 24

----------------------------------------------------------------------------
(* Initial state: the module-level code of main.py has run, both tasks    *)
(* have been created, uart_reader waits at its first sleep(0) and          *)
(* http_server is about to call accept.                                    *)

EmptyState ==
    [lat |-> None, lon |-> None, speed_kn |-> None, heading |-> None,
     raw_hex |-> None, last_update |-> None]

\* the fields parse_nmea_line assigns (history variables record these)
Fix(st) ==
    [lat |-> st.lat, lon |-> st.lon, speed_kn |-> st.speed_kn,
     heading |-> st.heading, last_update |-> st.last_update]

NoReply == [id |-> 0, kind |-> "none", body |-> EmptyState]

\* no call of nmea_to_decimal has been made on its own
NoCall == [coord |-> <<>>, hem |-> <<>>, dec |-> None]

Init ==
    /\ state = EmptyState
    /\ now = 0
    /\ buf = <<>>
    /\ wire = <<>>
    /\ pcU = "sleep0"
    /\ writes = <<>>
    /\ running = "http"
    /\ conns = <<>>
    /\ nreq = 0
    /\ answered = {}
    /\ reply = NoReply
    /\ pre = Fix(EmptyState)
    /\ lastLine = <<>>
    /\ base = Fix(EmptyState)
    /\ sent = <<>>
    /\ call = NoCall

\* the clock advances
Tick ==
    /\ now < MaxTime
    /\ now' = now + 1
    /\ UNCHANGED call
    /\ UNCHANGED <<state, buf, wire, pcU, writes, running, conns, nreq,
                   answered, reply, pre, lastLine, base, sent>>

----------------------------------------------------------------------------
(* Sentence-level specification: one call of parse_nmea_line per step *)

ParseLine(line) ==
    /\ state' = StoreWrites(state, parse_nmea_line(line, state).writes, now)
    /\ pre' = Fix(state)
    /\ lastLine' = line
    /\ UNCHANGED call
    /\ UNCHANGED <<now, buf, wire, pcU, writes, running, conns, nreq,
                   answered, reply, base, sent>>

ParseAny == \E line \in Lines : ParseLine(line)

NextParse == ParseAny \/ Tick

SpecParse == Init /\ [][NextParse]_vars

\* the same step, over the lines of the dispatch specification
ParseDispatch == \E line \in DispatchLines : ParseLine(line)

NextDispatch == ParseDispatch \/ Tick

SpecDispatch == Init /\ [][NextDispatch]_vars

----------------------------------------------------------------------------
(* Decoder-level specification: one call of nmea_to_decimal per step *)

\* coordinate tokens in the form DDMM.MMM or DDDMM.MMM, built from parts
DegreeDigits ==
    {<<"0", "0">>, <<"4", "8">>, <<"8", "9">>,
     <<"0", "0", "0">>, <<"0", "1", "1">>, <<"1", "4", "5">>, <<"1", "7", "9">>}
MinuteDigits == {<<"0", "0">>, <<"0", "7">>, <<"5", "9">>}
MinuteDecimals == {<<"0">>, <<"6", "5">>, <<"0", "3", "8">>}

GoodCoords ==
    {d \o m \o <<".">> \o f :
        d \in DegreeDigits, m \in MinuteDigits, f \in MinuteDecimals}

\* tokens that are not in that form: empty, without a decimal point (4916,
\* 123, 12), with text that is no number (48x7.038, 4807.0x8, abc), with
\* fewer than two digits before the point (7.5, .5)
BadCoords ==
    {<<>>,
     <<"4", "9", "1", "6">>, <<"1", "2", "3">>, <<"1", "2">>,
     <<"4", "8", "x", "7", ".", "0", "3", "8">>,
     <<"4", "8", "0", "7", ".", "0", "x", "8">>,
     <<"a", "b", "c">>,
     <<"7", ".", "5">>, <<".", "5">>}

Coords == GoodCoords \cup BadCoords

\* the hemisphere field: a letter, or empty
Hems == {<<>>, <<"N">>, <<"S">>, <<"E">>, <<"W">>}

CoordCall(coord, hem) ==
    /\ call' = [coord |-> coord, hem |-> hem, dec |-> nmea_to_decimal(coord, hem)]
    /\ UNCHANGED <<state, now, buf, wire, pcU, writes, running, conns, nreq,
                   answered, reply, pre, lastLine, base, sent>>

NextCoord == \E coord \in Coords, hem \in Hems : CoordCall(coord, hem)

SpecCoord == Init /\ [][NextCoord]_vars

----------------------------------------------------------------------------
(* Task-level specification: uart_reader and http_server under the         *)
(* cooperative scheduler of uasyncio.  A task keeps the processor from one *)
(* await to the next; `running` names the task that has it.                *)

ReadMax == 512
Backlog == 5

\* variant: an await between two assignments of a sentence
SuspendsAt_BetweenWrites(pc) == pc \in {"sleep0", "sleep100", "write"}

\* variant: blocking sleeps, the task never awaits
SuspendsAt_Never(pc) == FALSE

\* the awaits of uart_reader: sleep(0) at line 114, sleep_ms(100) at line 136
SuspendsAt(pc) == pc \in {"sleep0", "sleep100"}

\* who runs once uart_reader has moved to position pc
AfterUart(pc) == IF SuspendsAt(pc) THEN "http" ELSE "uart"

\* who may run when http_server awaits sleep(0): uart_reader, unless it is
\* still inside its 100 ms sleep
AfterHttp(pc) == IF pc = "sleep100" THEN {"uart", "http"} ELSE {"uart"}

\* variant: buf = b, the carried-over fragment is dropped
Accumulate_Replace(bf, b) == b

\* buf += b   (line 122)
Accumulate(bf, b) == bf \o b

\* the link starts sending a segment once the previous one has been read
LinkSend(seg) ==
    /\ wire = <<>>
    /\ wire' = seg
    /\ UNCHANGED call
    /\ UNCHANGED <<state, now, buf, pcU, writes, running, conns, nreq,
                   answered, reply, pre, lastLine, base, sent>>

\* a client connects and sends its request
ClientConnect(kind) ==
    /\ nreq < MaxReq
    /\ Len(conns) < Min(Backlog, MaxPending)
    /\ nreq' = nreq + 1
    /\ conns' = Append(conns, [id |-> nreq + 1, kind |-> kind])
    /\ UNCHANGED call
    /\ UNCHANGED <<state, now, buf, wire, pcU, writes, running, answered,
                   reply, pre, lastLine, base, sent>>

\* lines 115, 135-136: uart.any() is false, sleep 100 ms
UartIdle ==
    /\ running = "uart" /\ pcU = "sleep0"
    /\ pcU' = "sleep100"
    /\ running' = AfterUart(pcU')
    /\ UNCHANGED call
    /\ UNCHANGED <<state, now, buf, wire, writes, conns, nreq, answered,
                   reply, pre, lastLine, base, sent>>

\* line 136 -> 113 -> 114: the 100 ms are over, back to the top of the loop
UartWake ==
    /\ running = "uart" /\ pcU = "sleep100"
    /\ pcU' = "sleep0"
    /\ running' = AfterUart(pcU')
    /\ UNCHANGED call
    /\ UNCHANGED <<state, now, buf, wire, writes, conns, nreq, answered,
                   reply, pre, lastLine, base, sent>>

\* lines 115-122: k bytes have arrived and uart.read(512) returns them
UartRead(k) ==
    /\ running = "uart" /\ pcU = "sleep0"
    /\ k \in 1..Min(ReadMax, Len(wire))
    /\ Len(buf) + k <= MaxBuf
    /\ LET b == SubSeq(wire, 1, k)
       IN  /\ state' = [state EXCEPT !.raw_hex = Some(HexDump(b))]
           /\ buf' = Accumulate(buf, b)
           /\ sent' = sent \o b
    /\ wire' = SubSeq(wire, k + 1, Len(wire))
    /\ pcU' = "split"
    /\ running' = AfterUart(pcU')
    /\ UNCHANGED call
    /\ UNCHANGED <<now, writes, conns, nreq, answered, reply, pre, lastLine, base>>

\* lines 124-131: one pass of the while loop; the assignments of the
\* sentence are queued in `writes` and executed by UartWrite
UartLine ==
    /\ running = "uart" /\ pcU = "split"
    /\ Find(buf, "LF") # -1
    /\ \E d \in DecodeOutcomes(Split1(buf, "LF")[1]) :
         LET two   == Split1(buf, "LF")
             sline == IF d.ok THEN Strip(d.text) ELSE <<>>
         IN  /\ buf' = two[2]
             /\ IF sline # <<>>
                THEN /\ writes' = parse_nmea_line(sline, state).writes
                     /\ pre' = Fix(state)
                     /\ lastLine' = sline
                ELSE UNCHANGED <<writes, pre, lastLine>>
    /\ pcU' = IF writes' # <<>> THEN "write" ELSE "split"
    /\ running' = AfterUart(pcU')
    /\ UNCHANGED call
    /\ UNCHANGED <<state, now, wire, conns, nreq, answered, reply, base, sent>>

\* one assignment to `state` inside parse_nmea_line
UartWrite ==
    /\ running = "uart" /\ pcU = "write"
    /\ state' = StoreWrite(state, Head(writes), now)
    /\ writes' = Tail(writes)
    /\ pcU' = IF writes' # <<>> THEN "write" ELSE "split"
    /\ running' = AfterUart(pcU')
    /\ UNCHANGED call
    /\ UNCHANGED <<now, buf, wire, conns, nreq, answered, reply, pre,
                   lastLine, base, sent>>

\* line 124 is false: back to the top of the loop and its sleep(0).
\* History: the record of the last line is dropped, and a new framing
\* epoch begins when nothing is carried over.
UartYield ==
    /\ running = "uart" /\ pcU = "split"
    /\ Find(buf, "LF") = -1
    /\ pcU' = "sleep0"
    /\ running' = AfterUart(pcU')
    /\ pre' = Fix(state) /\ lastLine' = <<>>
    /\ IF buf = <<>> THEN base' = Fix(state) /\ sent' = <<>>
                     ELSE UNCHANGED <<base, sent>>
    /\ UNCHANGED call
    /\ UNCHANGED <<state, now, buf, wire, writes, conns, nreq, answered, reply>>

\* variant: a field that is unset is sent as the number 0
Snapshot_ZeroDefault(st) ==
    [lat |-> IF IsNone(st.lat) THEN Some(0) ELSE st.lat,
     lon |-> IF IsNone(st.lon) THEN Some(0) ELSE st.lon,
     speed_kn |-> IF IsNone(st.speed_kn) THEN Some(0) ELSE st.speed_kn,
     heading |-> IF IsNone(st.heading) THEN Some(0) ELSE st.heading,
     raw_hex |-> st.raw_hex,
     last_update |-> st.last_update]

\* the six reads of lines 222-229
Snapshot(st) ==
    [lat |-> st.lat, lon |-> st.lon, speed_kn |-> st.speed_kn,
     heading |-> st.heading, raw_hex |-> st.raw_hex,
     last_update |-> st.last_update]

\* lines 208-236: what is sent for a request
Respond(req, st) ==
    CASE req.kind = "index" -> [id |-> req.id, kind |-> "html", body |-> EmptyState]
      [] req.kind = "data"  -> [id |-> req.id, kind |-> "json", body |-> Snapshot(st)]
      [] req.kind = "other" -> [id |-> req.id, kind |-> "404", body |-> EmptyState]
      [] OTHER              -> [id |-> req.id, kind |-> "closed", body |-> EmptyState]

\* lines 202-205: accept times out, sleep(0); by now the client has taken
\* the last reply off its socket
HttpTimeout ==
    /\ running = "http"
    /\ conns = <<>>
    /\ reply' = NoReply
    /\ running' \in AfterHttp(pcU)
    /\ UNCHANGED call
    /\ UNCHANGED <<state, now, buf, wire, pcU, writes, conns, nreq, answered,
                   pre, lastLine, base, sent>>

\* lines 202-243: accept a connection and handle its request; an empty
\* request line continues the loop without reaching the sleep(0) of line 243
HttpServe ==
    /\ running = "http"
    /\ conns # <<>>
    /\ reply' = Respond(Head(conns), state)
    /\ answered' = answered \cup {Head(conns).id}
    /\ conns' = Tail(conns)
    /\ running' \in (IF Head(conns).kind = "empty" THEN {"http"} ELSE AfterHttp(pcU))
    /\ UNCHANGED call
    /\ UNCHANGED <<state, now, buf, wire, pcU, writes, nreq, pre, lastLine,
                   base, sent>>

\* the bytes of a segment arrive one by one: a read returns any part of it
UartReadSome == \E k \in 1..MaxBuf : UartRead(k)

\* a segment arrives as a burst: a read returns all of it
UartReadAll == UartRead(Len(wire))

\* the steps of the task other than the read
UartLoop == UartIdle \/ UartWake \/ UartLine \/ UartWrite \/ UartYield

uart_reader == UartReadAll \/ UartLoop

http_server == HttpTimeout \/ HttpServe

Link == \E seg \in Segments : LinkSend(seg)

Client == \E kind \in Requests : ClientConnect(kind)

\* the framing pipeline alone: no client ever connects
LinkFrame == \E seg \in FrameSegments : LinkSend(seg)

NextFrame == Tick \/ LinkFrame \/ UartReadSome \/ UartLoop \/ HttpTimeout

FrameSpec == Init /\ [][NextFrame]_vars

\* a stalled link: it delivers bytes without a terminator, or nothing; the
\* loop body of lines 124-131 is never entered
LinkStall == \E seg \in StallSegments : LinkSend(seg)

UartStall == UartReadAll \/ UartIdle \/ UartWake \/ UartYield

NextStall == LinkStall \/ Client \/ UartStall \/ http_server

\* the scheduler runs a task that is ready
StallSpec ==
    Init /\ [][NextStall]_vars /\ WF_vars(UartStall) /\ WF_vars(http_server)

\* a link that delivers lines with bytes outside ASCII; no client connects
LinkDecode == \E seg \in DecodeSegments : LinkSend(seg)

NextDecode == Tick \/ LinkDecode \/ uart_reader \/ HttpTimeout

DecodeSpec == Init /\ [][NextDecode]_vars

\* a link that repeats sentences for the same field; no client connects.
\* A segment that ends inside a sentence is sent only while nothing is
\* carried over, so that a sentence is cut over two reads at most.
LinkOrder ==
    \E seg \in OrderSegments :
        /\ seg = SegSevenOpen => buf = <<>>
        /\ LinkSend(seg)

NextOrder == Tick \/ LinkOrder \/ uart_reader \/ HttpTimeout

OrderSpec == Init /\ [][NextOrder]_vars

\* line 124 is true, uart_reader has the processor and line 125 changes
\* buf: UartLine can be taken and is no stuttering step (a predicate of
\* the state that implies ENABLED <<UartLine>>_vars)
LineReady ==
    /\ running = "uart" /\ pcU = "split"
    /\ Find(buf, "LF") # -1
    /\ Split1(buf, "LF")[2] # buf

\* weak fairness of UartLine, with LineReady for its enabling condition
LineFair == []<>(~LineReady) \/ []<><<UartLine>>_vars

\* uart_reader goes on from one await to the next: nothing but itself can
\* keep it from its next statement
FairOrder == OrderSpec /\ LineFair /\ WF_vars(UartWrite) /\ WF_vars(UartYield)

Next == Tick \/ Link \/ Client \/ uart_reader \/ http_server

Spec == Init /\ [][Next]_vars

\* the scheduler runs a task that is ready
FairSpec == Spec /\ WF_vars(uart_reader) /\ WF_vars(http_server)

----------------------------------------------------------------------------
(* Vocabulary of the claims: what a line is, read off its text *)

Fields(line) == Split(Strip(line), ",")

\* field k (0-based), <<>> when the line has no such field
Field(line, k) == IF k < Len(Fields(line)) THEN Fields(line)[k + 1] ELSE <<>>

HasField(line, k) == k < Len(Fields(line))

\* a $-line whose code after the 2-letter talker ID is `code`
IsSentence(line, code) ==
    /\ StartsWith(Strip(line), "$")
    /\ SubSeq(Fields(line)[1], 4, Len(Fields(line)[1])) = code

Numeric(tok) == float(tok).ok
Decodable(tok, hem) == ~IsNone(nmea_to_decimal(tok, hem))

IsValidRmc(line) == IsSentence(line, RMC) /\ Field(line, 2) = <<"A">>

\* the fields of the store for which the line carries a valid value
Carried(line) ==
    IF IsValidRmc(line) THEN
        {f \in {"lat"} : Decodable(Field(line, 3), Field(line, 4))}
        \cup {f \in {"lon"} : Decodable(Field(line, 5), Field(line, 6))}
        \cup {f \in {"speed_kn"} : Numeric(Field(line, 7))}
        \cup {f \in {"heading"} : Numeric(Field(line, 8))}
    ELSE IF IsSentence(line, GGA) THEN
        {f \in {"lat"} : Decodable(Field(line, 2), Field(line, 3))}
        \cup {f \in {"lon"} : Decodable(Field(line, 4), Field(line, 5))}
    ELSE IF IsSentence(line, VTG) THEN {f \in {"speed_kn"} : Numeric(Field(line, 5))}
    ELSE IF IsSentence(line, HDT) THEN {f \in {"heading"} : Numeric(Field(line, 1))}
    ELSE {}

\* a line has just been through the parser and its assignments are done
Processed == lastLine # <<>> /\ writes = <<>>

\* the clock has moved since the last assignment of last_update before the line
ClockMoved == IsNone(pre.last_update) \/ now > Val(pre.last_update)

----------------------------------------------------------------------------
(* Claims C1-C5: one sentence through parse_nmea_line (SpecParse) *)

\* C1 (as claimed): last_update is assigned only while processing a
\* sentence that carries a valid value for at least one of lat, lon,
\* speed_kn, heading; any other line leaves it unchanged.
C1_LastUpdateOnlyWithValidField ==
    (Processed /\ state.last_update # pre.last_update) => Carried(lastLine) # {}

\* C2: an RMC sentence whose status field is not A leaves lat, lon,
\* speed_kn, heading and last_update as they were, whatever its other fields.
C2_VoidRmcChangesNothing ==
    (Processed /\ IsSentence(lastLine, RMC) /\ Field(lastLine, 2) # <<"A">>)
        => Fix(state) = pre

\* C2 witness: a void RMC with all its fields filled was processed on top of
\* a known fix, at a time when an assignment of last_update would show.
C2_Witness ==
    /\ Processed /\ lastLine = RmcVoid
    /\ ~IsNone(pre.lat) /\ ~IsNone(pre.speed_kn) /\ ~IsNone(pre.heading)
    /\ ~IsNone(pre.last_update) /\ now > Val(pre.last_update)

\* C3 (as claimed): a status-A RMC sentence whose lat, lon, speed and heading
\* all decode sets the four store fields to the decoded values and assigns
\* last_update.
C3_ValidRmcSetsAllFour ==
    (Processed /\ IsValidRmc(lastLine)
        /\ Carried(lastLine) = {"lat", "lon", "speed_kn", "heading"})
        => /\ state.lat = nmea_to_decimal(Field(lastLine, 3), Field(lastLine, 4))
           /\ state.lon = nmea_to_decimal(Field(lastLine, 5), Field(lastLine, 6))
           /\ state.speed_kn = Some(float(Field(lastLine, 7)).v)
           /\ state.heading = Some(float(Field(lastLine, 8)).v)
           /\ ~IsNone(state.last_update)

\* a status-A RMC sentence that parse_nmea_line gets through: it has its
\* nine fields, and speed and heading are each empty or a number
RmcParses(line) ==
    /\ IsValidRmc(line) /\ HasField(line, 8)
    /\ Field(line, 7) = <<>> \/ Numeric(Field(line, 7))
    /\ Field(line, 8) = <<>> \/ Numeric(Field(line, 8))

\* C4: in a status-A RMC sentence an empty speed field clears speed_kn, an
\* empty heading field keeps the heading that was stored, and a speed or
\* heading that is present replaces the stored value.
C4_SpeedClearsHeadingKeeps ==
    (Processed /\ RmcParses(lastLine))
        => /\ state.speed_kn = IF Field(lastLine, 7) = <<>> THEN None
                               ELSE Some(float(Field(lastLine, 7)).v)
           /\ state.heading = IF Field(lastLine, 8) = <<>> THEN pre.heading
                              ELSE Some(float(Field(lastLine, 8)).v)
           /\ lastLine = RmcNoSpeed =>
                 IsNone(state.speed_kn) /\ state.heading = Some(5064000)

\* C4 witness: speed and heading were both known, and a status-A RMC with
\* both fields empty cleared the one and kept the other.
C4_Witness ==
    /\ Processed /\ lastLine = RmcAllEmpty
    /\ ~IsNone(pre.speed_kn) /\ ~IsNone(pre.heading)
    /\ IsNone(state.speed_kn) /\ state.heading = pre.heading

\* C5: a VTG sentence changes at most speed_kn and last_update, an HDT
\* sentence at most heading and last_update; a numeric value field becomes
\* the stored value, an empty or missing one changes nothing at all.
C5_VtgHdtFrame ==
    /\ (Processed /\ IsSentence(lastLine, VTG)) =>
          /\ state.lat = pre.lat /\ state.lon = pre.lon
          /\ state.heading = pre.heading
          /\ Numeric(Field(lastLine, 5)) =>
                state.speed_kn = Some(float(Field(lastLine, 5)).v)
          /\ Field(lastLine, 5) = <<>> => Fix(state) = pre
          /\ lastLine = VtgFull => state.speed_kn = Some(330000)
    /\ (Processed /\ IsSentence(lastLine, HDT)) =>
          /\ state.lat = pre.lat /\ state.lon = pre.lon
          /\ state.speed_kn = pre.speed_kn
          /\ Numeric(Field(lastLine, 1)) =>
                state.heading = Some(float(Field(lastLine, 1)).v)
          /\ Field(lastLine, 1) = <<>> => Fix(state) = pre
          /\ lastLine = HdtFull => state.heading = Some(7404000)

\* C5 witness: a VTG sentence with an empty knots field was processed while
\* a position, a speed and a heading were stored.
C5_Witness ==
    /\ Processed /\ lastLine = VtgEmpty
    /\ ~IsNone(pre.lat) /\ ~IsNone(pre.speed_kn) /\ ~IsNone(pre.heading)
    /\ ~IsNone(pre.last_update) /\ now > Val(pre.last_update)

----------------------------------------------------------------------------
(* Claims C6-C10: framing and the two tasks *)

Nav(st) ==
    [lat |-> st.lat, lon |-> st.lon, speed_kn |-> st.speed_kn,
     heading |-> st.heading]

\* every complete line received so far has been through the parser
AllLinesDone == writes = <<>> /\ Find(buf, "LF") = -1

\* a line whose parsing fails: too few fields, or text that is not a number
\* where a number is expected
Malformed(line) ==
    \/ /\ IsSentence(line, RMC)
       /\ \/ ~HasField(line, 2)
          \/ /\ Field(line, 2) = <<"A">>
             /\ \/ ~HasField(line, 8)
                \/ Field(line, 7) # <<>> /\ ~Numeric(Field(line, 7))
                \/ Field(line, 8) # <<>> /\ ~Numeric(Field(line, 8))
    \/ IsSentence(line, GGA) /\ ~HasField(line, 5)
    \/ IsSentence(line, VTG) /\ Field(line, 5) # <<>> /\ ~Numeric(Field(line, 5))
    \/ /\ IsSentence(line, HDT)
       /\ ~HasField(line, 1) \/ (Field(line, 1) # <<>> /\ ~Numeric(Field(line, 1)))

\* the store and the carry-over after `bytes` arrive as one single chunk on
\* an empty carry-over buffer; with cleaned, the stream is taken without
\* its malformed lines
RECURSIVE Feed(_, _, _)
Feed(st, bytes, cleaned) ==
    IF Find(bytes, "LF") = -1 THEN [fix |-> st, rest |-> bytes]
    ELSE LET two   == Split1(bytes, "LF")
             sline == Strip(Decode(two[1]))
         IN  Feed(IF sline # <<>> /\ ~(cleaned /\ Malformed(sline))
                  THEN StoreWrites(st, parse_nmea_line(sline, st).writes, 0)
                  ELSE st,
                  two[2], cleaned)

\* C6: however the bytes of a stream are cut into chunks, once the complete
\* lines are processed lat, lon, speed_kn and heading are what delivery of
\* the same bytes in one chunk gives, and the carry-over buffer is the
\* unterminated tail.  (`sent` holds the bytes read since the carry-over was
\* last empty and `base` the store at that moment.)
C6_ChunkingIrrelevant ==
    AllLinesDone =>
        /\ Nav(state) = Nav(Feed(base, sent, FALSE).fix)
        /\ buf = Feed(base, sent, FALSE).rest

\* C6 witness: a sentence arrived in one chunk and its terminator alone in a
\* later one; the sentence has been parsed and has changed the store.
C6_Witness ==
    /\ AllLinesDone /\ pcU = "split"
    /\ state.raw_hex = Some(HexDump(LF))
    /\ Len(sent) > 1
    /\ Nav(state) # Nav(base)

\* C7: a line whose parsing fails leaves lat, lon, speed_kn, heading and
\* last_update as they were and the task goes on with the next line; the
\* store ends as if the line had not been in the stream.
C7_MalformedLineSkipped ==
    /\ (Processed /\ Malformed(lastLine)) =>
          Fix(state) = pre /\ pcU = "split" /\ running = "uart"
    /\ AllLinesDone => Nav(state) = Nav(Feed(base, sent, TRUE).fix)

\* C7 witness: the garbled sentence was processed after a good one had
\* stored a heading, the clock has moved, and a further line is waiting.
C7_Witness ==
    /\ Processed /\ lastLine = HdtGarbled
    /\ ~IsNone(pre.heading) /\ now > Val(pre.last_update)
    /\ Find(buf, "LF") # -1

\* C8: whenever http_server runs, uart_reader is at an await and no
\* assignment of a sentence is outstanding; a snapshot sent for /data is
\* therefore never a record caught between the first and the last
\* assignment of a sentence (a position without its last_update).
C8_NoTornSnapshot ==
    /\ running = "http" => (pcU \in {"sleep0", "sleep100"} /\ writes = <<>>)
    /\ (reply.kind = "json"
          /\ (~IsNone(reply.body.lat) \/ ~IsNone(reply.body.lon)))
       => ~IsNone(reply.body.last_update)

\* C8 witness: a /data reply carries a position while the reader holds the
\* beginning of the next sentence in its carry-over buffer.
C8_Witness ==
    /\ reply.kind = "json" /\ ~IsNone(reply.body.lat)
    /\ reply.body = Snapshot(state)
    /\ buf # <<>>

\* C9: on a link that never delivers a terminator every request that has
\* arrived is eventually handled, and uart_reader always gives the
\* processor back.
C9_RequestsAnswered ==
    /\ \A i \in 1..MaxReq : (nreq >= i) ~> (i \in answered)
    /\ (running = "uart") ~> (running = "http")

\* C9 witness: a request was answered while the carry-over buffer held more
\* than one unterminated read.
C9_Witness ==
    /\ answered # {}
    /\ Len(buf) > Len(SegHead) /\ Find(buf, "LF") = -1

\* C10 (as claimed): the carry-over buffer never grows past a fixed bound.
C10_CarryOverBounded == Len(buf) <= CarryBound

----------------------------------------------------------------------------
(* Claims C11-C20 *)

NavFields == {"lat", "lon", "speed_kn", "heading"}
SixKeys == {"lat", "lon", "speed_kn", "heading", "raw_hex", "last_update"}

\* a field of the store goes from unset to a value only while a sentence
\* that carries a valid value for it is being processed
SetOnlyByCarrier ==
    \A f \in NavFields :
        (IsNone(state[f]) /\ ~IsNone(state'[f]))
            => (lastLine' # <<>> /\ f \in Carried(lastLine'))

\* a /data reply holds, for every field, what the store holds when it is sent
ReplyIsStore ==
    (reply' # reply /\ reply'.kind = "json")
        => \A f \in SixKeys : reply'.body[f] = state[f]

\* C11: the store starts with its six fields unset; the /data payload has
\* exactly the six keys; lat, lon, speed_kn and heading stay null until a
\* processed sentence carries a valid value for the field, and the payload
\* reports an unset field as null, never as 0.
C11_UnsetIsNull ==
    /\ state = EmptyState
    /\ [](reply.kind = "json" => DOMAIN reply.body = SixKeys)
    /\ [][SetOnlyByCarrier]_vars
    /\ [][ReplyIsStore]_vars

\* C11 witness: bytes have arrived and a position is stored, and a /data
\* reply reports the position with speed and heading still null.
C11_Witness ==
    /\ reply.kind = "json"
    /\ ~IsNone(reply.body.raw_hex) /\ ~IsNone(reply.body.lon)
    /\ IsNone(reply.body.speed_kn) /\ IsNone(reply.body.heading)

\* the token has a character that is neither a digit nor the decimal point
HasText(tok) == \E i \in 1..Len(tok) : ~IsDigit(tok[i]) /\ tok[i] # "."

\* the malformed tokens of C12: empty, no decimal point, non-numeric text
MalformedCoord(tok) == tok = <<>> \/ Find(tok, ".") = -1 \/ HasText(tok)

\* a call of the decoder has been made
Called == call # NoCall

\* C12 (as claimed): the decoder returns no value for an empty token, for a
\* token without a decimal point and for a token with non-numeric text.
C12_MalformedCoordNoValue ==
    (Called /\ MalformedCoord(call.coord)) => IsNone(call.dec)

\* a GGA sentence that parse_nmea_line gets through: it has its six fields
GgaParses(line) == IsSentence(line, GGA) /\ HasField(line, 5)

\* what a coordinate field of the store is claimed to become: the decoded
\* value when the token decodes, the prior value when it does not
Merged(tok, hem, prior) ==
    IF Decodable(tok, hem) THEN nmea_to_decimal(tok, hem) ELSE prior

\* C13 (as claimed): in a status-A RMC sentence and in a GGA sentence, a
\* latitude token that decodes becomes the stored lat and a longitude token
\* that decodes becomes the stored lon, each whether or not the other one
\* decodes; a token that does not decode keeps the prior value.
C13_LatLonIndependent ==
    /\ (Processed /\ RmcParses(lastLine)) =>
          /\ state.lat = Merged(Field(lastLine, 3), Field(lastLine, 4), pre.lat)
          /\ state.lon = Merged(Field(lastLine, 5), Field(lastLine, 6), pre.lon)
    /\ (Processed /\ GgaParses(lastLine)) =>
          /\ state.lat = Merged(Field(lastLine, 2), Field(lastLine, 3), pre.lat)
          /\ state.lon = Merged(Field(lastLine, 4), Field(lastLine, 5), pre.lon)

HasNonAscii(bytes) == \E i \in 1..Len(bytes) : ~IsAscii(bytes[i])

\* the store after `bytes` arrive as one chunk, when every line that holds a
\* byte outside ASCII is dropped as a whole
RECURSIVE FeedText(_, _)
FeedText(st, bytes) ==
    IF Find(bytes, "LF") = -1 THEN [fix |-> st, rest |-> bytes]
    ELSE LET two   == Split1(bytes, "LF")
             sline == Strip(two[1])
         IN  FeedText(IF sline # <<>> /\ ~HasNonAscii(two[1])
                      THEN StoreWrites(st, parse_nmea_line(sline, st).writes, 0)
                      ELSE st,
                      two[2])

\* the bytes are exactly one terminated line
OneLine(bytes) == bytes # <<>> /\ Find(bytes, "LF") = Len(bytes) - 1

\* C14 (as claimed): a line that holds a byte outside ASCII is dropped as a
\* whole: it changes none of lat, lon, speed_kn, heading, last_update even
\* when its other bytes form a valid sentence, and the lines after it are
\* processed.
C14_NonTextLineDropped ==
    /\ AllLinesDone => Nav(state) = Nav(FeedText(base, sent).fix)
    /\ (AllLinesDone /\ OneLine(sent) /\ HasNonAscii(sent)) => Fix(state) = base

\* the terminated lines of a byte stream, in arrival order
CompleteLines(bytes) ==
    LET all == Split(bytes, "LF") IN SubSeq(all, 1, Len(all) - 1)

\* the assignments a line of bytes leads to (for the sentences of the
\* ordering specification they do not depend on the store)
Updates(line) == parse_nmea_line(Strip(Decode(line)), EmptyState).writes

Supplies(line, f) == \E k \in 1..Len(Updates(line)) : Updates(line)[k].key = f

Supplied(line, f) ==
    Updates(line)[CHOOSE k \in 1..Len(Updates(line)) : Updates(line)[k].key = f].val

\* the value of field f after the lines: that of the latest line that
\* supplies one, the prior value when no line does
LastValue(lines, f, prior) ==
    IF \E i \in 1..Len(lines) : Supplies(lines[i], f)
    THEN Supplied(lines[CHOOSE i \in 1..Len(lines) :
                            /\ Supplies(lines[i], f)
                            /\ \A j \in (i + 1)..Len(lines) : ~Supplies(lines[j], f)], f)
    ELSE prior

\* C15: sentences are applied in arrival order and the last writer of a
\* field wins: once the complete lines are processed, each of lat, lon,
\* speed_kn, heading holds the value of the most recent line that supplied
\* one, whether the lines came in one chunk or in several.
C15_LastWriterWins ==
    AllLinesDone =>
        \A f \in NavFields : state[f] = LastValue(CompleteLines(sent), f, base[f])

\* C15 witness: heading 7 was stored from an earlier chunk; then 7 and 9
\* arrived, the terminator of the 9 in a chunk of its own, and 9 is stored.
C15_Witness ==
    /\ AllLinesDone /\ pcU = "split"
    /\ sent = SegSevenOpen \o SegEnd
    /\ base.heading = Some(7 * Scale) /\ state.heading = Some(9 * Scale)

\* the characters after the 2-letter talker ID in the first field
CodeOf(line) == SliceFrom(Fields(line)[1], 3)

Recognised(line) ==
    StartsWith(Strip(line), "$") /\ CodeOf(line) \in {RMC, GGA, VTG, HDT}

\* the line with GP in the place of its talker ID
Retalk(line) == <<"$", "G", "P">> \o SliceFrom(Strip(line), 3)

\* lat, lon, speed_kn, heading after `line` is parsed on top of `prior`
NavAfter(line, prior) == Nav(StoreWrites(prior, parse_nmea_line(line, prior).writes, 0))

\* C16 (as claimed): a line that does not begin with $ and a $-line whose
\* code after the talker ID is none of RMC, GGA, VTG, HDT change nothing
\* and are no error; a recognised code is dispatched the same whatever the
\* talker ID.
C16_OtherLinesIgnored ==
    /\ (Processed /\ ~Recognised(lastLine)) =>
          Fix(state) = pre /\ ~parse_nmea_line(lastLine, pre).failed
    /\ (Processed /\ Recognised(lastLine)) =>
          Nav(state) = NavAfter(Retalk(lastLine), pre)

IsHex(c) == \E i \in 1..Len(HexDigits) : HexDigits[i] = c

\* the line ends in a checksum, * and two hexadecimal digits
HasChecksum(line) ==
    /\ Len(line) >= 3
    /\ line[Len(line) - 2] = "*"
    /\ IsHex(line[Len(line) - 1]) /\ IsHex(line[Len(line)])

\* the line without its checksum
NoChecksum(line) == SubSeq(line, 1, Len(line) - 3)

\* the fields of the store a line assigns when it is parsed on top of `prior`
KeysWritten(line, prior) ==
    {parse_nmea_line(line, prior).writes[k].key :
        k \in 1..Len(parse_nmea_line(line, prior).writes)}

\* C17 (as claimed): the checksum at the end of a recognised sentence is
\* ignored: the fields assigned and the values stored are those of the
\* same sentence without the checksum, also when the checksum follows the
\* field the parser reads.
C17_ChecksumIgnored ==
    (Processed /\ Recognised(lastLine) /\ HasChecksum(lastLine)) =>
        /\ Nav(state) = NavAfter(NoChecksum(lastLine), pre)
        /\ KeysWritten(lastLine, pre) = KeysWritten(NoChecksum(lastLine), pre)

\* a token in the form DDMM.MMM or DDDMM.MMM: two or three degree digits,
\* two minute digits, the point, one to three decimals
WellFormedCoord(tok) ==
    LET dot == Find(tok, ".")
    IN  /\ dot \in {4, 5}
        /\ Len(tok) - (dot + 1) \in 1..3
        /\ \A i \in 1..Len(tok) : i # dot + 1 => IsDigit(tok[i])

\* degrees + minutes/60 in units of 1/Scale, the split taken two digits
\* before the point: a minute is Scale/60 units, a thousandth of a minute
\* one unit
DegreesPlusMinutes(tok) ==
    LET dot == Find(tok, ".")
    IN  DigitsValue(SubSeq(tok, 1, dot - 2)) * Scale
        + DigitsValue(SubSeq(tok, dot - 1, dot)) * (Scale \div 60)
        + Thousandths(SubSeq(tok, dot + 2, Len(tok)))

\* C18: for a token DDMM.MMM or DDDMM.MMM the decoder returns degrees +
\* minutes/60 with the split two digits before the decimal point, negated
\* exactly when the hemisphere is S or W, positive for N, E or none.
C18_DegreesMinutes ==
    (Called /\ WellFormedCoord(call.coord)) =>
        /\ ~IsNone(call.dec)
        /\ Val(call.dec) = IF call.hem \in {<<"S">>, <<"W">>}
                           THEN 0 - DegreesPlusMinutes(call.coord)
                           ELSE DegreesPlusMinutes(call.coord)
        /\ (call.coord = <<"1", "4", "5", "0", "7", ".", "6", "5">> /\ call.hem = <<"W">>)
              => Val(call.dec) = 0 - (145 * Scale + 7650)

\* C18 witness: a longitude token with three degree digits was decoded for
\* the western hemisphere, to a negative value.
C18_Witness ==
    /\ Called /\ WellFormedCoord(call.coord)
    /\ Find(call.coord, ".") = 5 /\ call.hem = <<"W">>
    /\ ~IsNone(call.dec) /\ Val(call.dec) < 0

\* the bytes after the last terminator
Tail1(bytes) == Split(bytes, "LF")[Len(Split(bytes, "LF"))]

\* at an await of uart_reader the carry-over buffer holds no terminator: it
\* is the unterminated tail of what was read, and no assignment is pending
CleanAtAwait ==
    pcU \in {"sleep0", "sleep100"} =>
        /\ Find(buf, "LF") = -1
        /\ buf = Tail1(sent)
        /\ writes = <<>>

\* a pass of the loop of lines 124-131 takes the first line and its
\* terminator off the buffer, and that line is what the parser is given
TakesFirstLine ==
    (pcU = "split" /\ buf' # buf) =>
        LET line == SubSeq(buf, 1, Find(buf, "LF"))
        IN  /\ buf = line \o LF \o buf'
            /\ Strip(Decode(line)) # <<>> => lastLine' = Strip(Decode(line))

\* C19: for every chunk the line-extraction loop terminates, and at every
\* await of uart_reader the carry-over buffer holds no terminator: each
\* complete line has been taken off the buffer and handed to the parser
\* once, and only the unterminated tail is left.
C19_LoopDrainsLines ==
    /\ []CleanAtAwait
    /\ [][TakesFirstLine]_vars
    /\ (pcU = "split") ~> (pcU = "sleep0")

\* C19 witness: one read brought a complete sentence and the beginning of
\* the next; the loop has run, the first is stored and the task is back at
\* its await with the unterminated tail.
C19_Witness ==
    /\ pcU = "sleep0" /\ running = "http"
    /\ sent = SegSevenOpen /\ buf = HdtTiny
    /\ state.heading = Some(7 * Scale)

\* C20: once lat, lon or heading holds a value no line returns it to
\* unset; speed_kn goes from a value back to unset only through a status-A
\* RMC sentence whose speed field is empty.
C20_NoReturnToUnset ==
    Processed =>
        /\ \A f \in {"lat", "lon", "heading"} : ~IsNone(pre[f]) => ~IsNone(state[f])
        /\ (~IsNone(pre.speed_kn) /\ IsNone(state.speed_kn))
              => (IsValidRmc(lastLine) /\ Field(lastLine, 7) = <<>>)

\* C20 witness: a GGA sentence with empty coordinates was processed on a
\* store with a position, a speed and a heading, and all four are kept.
C20_Witness ==
    /\ Processed /\ lastLine = GgaEmpty
    /\ \A f \in NavFields : ~IsNone(pre[f]) /\ state[f] = pre[f]

====
